---- MODULE Spec2Model ----
(***************************************************************************)
(* Model of internal/anna/anna.go: the annotation parser                   *)
(* (extractMetaInformation), the search orchestrator (FindBook) and the    *)
(* two-stage download (Book.Download).                                     *)
(*                                                                         *)
(* Go strings that the code takes apart are sequences of characters, one   *)
(* one-character string per rune; the two non-ASCII runes of the source    *)
(* are written by their code points.                                       *)
(***************************************************************************)
EXTENDS Integers, Sequences, FiniteSets, TLC

VARIABLES
    \* extractMetaInformation
    mpc, meta, language, format, size,
    \* FindBook
    fpc, page, fetchOK, cursor, bookList, bookListParsed, fret,
    \* Book.Download
    dpc, book, folderPath, files0, files, apiResp, status, filePath, retErr,
    decoded, nResolve, nFetch, nCreate

metaVars == <<mpc, meta, language, format, size>>

findVars == <<fpc, page, fetchOK, cursor, bookList, bookListParsed, fret>>

downVars == <<dpc, book, folderPath, files0, files, apiResp, status, filePath,
              retErr, decoded, nResolve, nFetch, nCreate>>

vars == <<metaVars, findVars, downVars>>

-----------------------------------------------------------------------------
(* Characters *)

SP == " "
TAB == "\t"
LF == "\n"
MIDDOT == "U+00B7"
CHECKMARK == "U+2705"

\* unicode.IsSpace, restricted to the white space the inputs use
IsSpace(c) == c \in {SP, TAB, LF}

\* the separator of strings.Split(meta, " · ")
Delim == <<SP, MIDDOT, SP>>

\* the cutset of strings.TrimLeft(language, "✅ ")
CheckCutset == {CHECKMARK, SP}

EmptyStr == <<>>

-----------------------------------------------------------------------------
(* Package strings *)

\* s[lo:hi] of Go, 0-based, hi exclusive
Slice(s, lo, hi) == SubSeq(s, lo + 1, hi)

HasPrefixAt(s, sub, i) ==
    /\ i + Len(sub) <= Len(s)
    /\ \A k \in 1..Len(sub) : s[i + k] = sub[k]

\* strings.Index: the 0-based position of the first occurrence, or -1
Index(s, sub) ==
    LET hits == {i \in 0..Len(s) : HasPrefixAt(s, sub, i)}
    IN  IF hits = {} THEN -1
        ELSE CHOOSE i \in hits : \A j \in hits : i <= j

Contains(s, sub) == Index(s, sub) >= 0

HasPrefix(s, prefix) == HasPrefixAt(s, prefix, 0)

TrimPrefix(s, prefix) ==
    IF HasPrefix(s, prefix) THEN Slice(s, Len(prefix), Len(s)) ELSE s

RECURSIVE Split(_, _)
Split(s, sep) ==
    LET i == Index(s, sep)
    IN  IF i < 0 THEN <<s>>
        ELSE <<Slice(s, 0, i)>> \o Split(Slice(s, i + Len(sep), Len(s)), sep)

RECURSIVE TrimLeftFunc(_, _)
TrimLeftFunc(s, cut) ==
    IF s # <<>> /\ Head(s) \in cut THEN TrimLeftFunc(Tail(s), cut) ELSE s

TrimLeft(s, cutset) == TrimLeftFunc(s, cutset)

RECURSIVE TrimRightSpace(_)
TrimRightSpace(s) ==
    IF s # <<>> /\ IsSpace(s[Len(s)])
    THEN TrimRightSpace(SubSeq(s, 1, Len(s) - 1))
    ELSE s

RECURSIVE TrimLeftSpace(_)
TrimLeftSpace(s) ==
    IF s # <<>> /\ IsSpace(Head(s)) THEN TrimLeftSpace(Tail(s)) ELSE s

TrimSpace(s) == TrimRightSpace(TrimLeftSpace(s))

ReplaceAll(s, old, new) == [i \in 1..Len(s) |-> IF s[i] = old THEN new ELSE s[i]]

-----------------------------------------------------------------------------
(* extractMetaInformation *)

\* a guard that lets two segments through
TooFewPartsLax(parts) == Len(parts) < 2

\* len(parts) < 3
TooFewParts(parts) == Len(parts) < 3

\* the condition of the scanning loop's if
IsSizePart(part) ==
    \/ Contains(part, <<"M", "B">>)
    \/ Contains(part, <<"K", "B">>)
    \/ Contains(part, <<"G", "B">>)

\* the language block: parts[0] trimmed, cut at "[", the decoration stripped
LanguageOf(parts) ==
    LET languagePart == TrimSpace(parts[1])
        idx == Index(languagePart, <<"[">>)
    IN  IF idx > 0
        THEN TrimLeft(TrimSpace(Slice(languagePart, 0, idx)), CheckCutset)
        ELSE EmptyStr

\* the for loop from i (0-based): <<formatIdx, sizeIdx>> when it ends
RECURSIVE ScanParts(_, _)
ScanParts(parts, i) ==
    IF i >= Len(parts) THEN <<-1, -1>>
    ELSE IF IsSizePart(TrimSpace(parts[i + 1]))
         THEN <<IF i > 0 THEN i - 1 ELSE -1, i>>
         ELSE ScanParts(parts, i + 1)

\* a guard that takes the first segment for a format
FormatAtLax(parts, formatIdx) ==
    IF formatIdx >= 0 /\ formatIdx < Len(parts)
    THEN TrimSpace(parts[formatIdx + 1]) ELSE EmptyStr

\* if formatIdx > 0 && formatIdx < len(parts)
FormatAt(parts, formatIdx) ==
    IF formatIdx > 0 /\ formatIdx < Len(parts)
    THEN TrimSpace(parts[formatIdx + 1]) ELSE EmptyStr

\* if sizeIdx > 0 && sizeIdx < len(parts)
SizeAt(parts, sizeIdx) ==
    IF sizeIdx > 0 /\ sizeIdx < Len(parts)
    THEN TrimSpace(parts[sizeIdx + 1]) ELSE EmptyStr

extractMetaInformation(m) ==
    LET parts == Split(m, Delim)
    IN  IF TooFewParts(parts)
        THEN [language |-> EmptyStr, format |-> EmptyStr, size |-> EmptyStr]
        ELSE LET idxs == ScanParts(parts, 1)
             IN  [language |-> LanguageOf(parts),
                  format |-> FormatAt(parts, idxs[1]),
                  size |-> SizeAt(parts, idxs[2])]

-----------------------------------------------------------------------------
(* Inputs of the annotation parser: annotations joined from segments *)

MaxSegs == 4

Segments ==
    { <<CHECKMARK, SP, "E", SP, "[", "e", "]">>,   \* "✅ E [e]"
      <<CHECKMARK, TAB, "E", "[", "e", "]">>,      \* "✅\tE[e]"
      <<"[", "e", "]">>,                           \* "[e]"
      <<TAB, "P", SP>>,                            \* a format with white space around
      <<"1", "M", "B">>,
      <<SP, "K", "B", LF>>,
      <<"G", "B", MIDDOT, "2">>,                   \* a middle dot that is no delimiter
      <<"M", "b">>,
      <<>> }

RECURSIVE JoinSegs(_)
JoinSegs(segs) ==
    IF Len(segs) = 0 THEN <<>>
    ELSE IF Len(segs) = 1 THEN segs[1]
    ELSE segs[1] \o Delim \o JoinSegs(Tail(segs))

SegLists == UNION {[1..n -> Segments] : n \in 1..MaxSegs}

Annotations == {JoinSegs(segs) : segs \in SegLists}

MetaIdle ==
    /\ mpc = "idle"
    /\ meta = EmptyStr
    /\ language = EmptyStr
    /\ format = EmptyStr
    /\ size = EmptyStr

FindIdle ==
    /\ fpc = "idle"
    /\ page = <<>>
    /\ fetchOK = FALSE
    /\ cursor = 0
    /\ bookList = <<>>
    /\ bookListParsed = <<>>
    /\ fret = [books |-> <<>>, err |-> "none"]

NoResp == [DownloadURL |-> "", Error |-> ""]

DownIdle ==
    /\ dpc = "idle"
    /\ book = [Title |-> EmptyStr, Format |-> EmptyStr]
    /\ folderPath = EmptyStr
    /\ files0 = <<>>
    /\ files = <<>>
    /\ apiResp = NoResp
    /\ status = 0
    /\ filePath = EmptyStr
    /\ retErr = "none"
    /\ decoded = FALSE
    /\ nResolve = 0
    /\ nFetch = 0
    /\ nCreate = 0

MetaInit ==
    /\ mpc = "call"
    /\ meta \in Annotations
    /\ language = EmptyStr
    /\ format = EmptyStr
    /\ size = EmptyStr
    /\ FindIdle
    /\ DownIdle

\* one call of extractMetaInformation(meta)
ExtractMeta ==
    /\ mpc = "call"
    /\ LET r == extractMetaInformation(meta)
       IN  /\ language' = r.language
           /\ format' = r.format
           /\ size' = r.size
    /\ mpc' = "returned"
    /\ UNCHANGED <<meta, findVars, downVars>>

MetaNext == ExtractMeta

SpecMeta == MetaInit /\ [][MetaNext]_vars

-----------------------------------------------------------------------------
(* Properties of extractMetaInformation *)

\* the segments the annotation splits into on " · "
Segs == Split(meta, Delim)

\* a segment that contains "MB", "KB" or "GB"
SizeBearing(seg) ==
    \E j \in 1..(Len(seg) - 1) : seg[j] \in {"M", "K", "G"} /\ seg[j + 1] = "B"

\* the 1-based positions, from the second segment on, of the size-bearing segments
SizeBearingPositions == {i \in 2..Len(Segs) : SizeBearing(Segs[i])}

FirstSizeBearing ==
    CHOOSE i \in SizeBearingPositions : \A j \in SizeBearingPositions : i <= j

\* a value without leading or trailing white space
IsTrimmed(s) == s = <<>> \/ (~IsSpace(s[1]) /\ ~IsSpace(s[Len(s)]))

\* C6: for an annotation of at least 3 segments, size is the first segment from
\* index 1 on that contains "MB", "KB" or "GB" and format is the segment just
\* before it (each white-space trimmed); format is empty when that segment is at
\* index 1; format and size are both empty when there is no such segment.
C6_FormatSizeByFirstSizeSegment ==
    (mpc = "returned" /\ Len(Segs) >= 3) =>
        IF SizeBearingPositions = {}
        THEN format = EmptyStr /\ size = EmptyStr
        ELSE /\ size = TrimSpace(Segs[FirstSizeBearing])
             /\ format = IF FirstSizeBearing = 2 THEN EmptyStr
                         ELSE TrimSpace(Segs[FirstSizeBearing - 1])

\* two language segments come first, then the format, then the size
C6_Witness ==
    /\ mpc = "returned"
    /\ Len(Segs) = 4
    /\ Contains(Segs[1], <<"[">>) /\ Contains(Segs[2], <<"[">>)
    /\ SizeBearingPositions = {4}
    /\ format = <<"P">>
    /\ size = <<"K", "B">>

\* C7: an annotation that splits into fewer than 3 segments yields language,
\* format and size all empty, whatever its segments hold.
C7_FewSegmentsAllEmpty ==
    (mpc = "returned" /\ Len(Segs) < 3) =>
        (language = EmptyStr /\ format = EmptyStr /\ size = EmptyStr)

\* two segments: a bracketed language, then a size
C7_Witness ==
    /\ mpc = "returned"
    /\ Len(Segs) = 2
    /\ Index(TrimSpace(Segs[1]), <<"[">>) > 0
    /\ SizeBearing(Segs[2])
    /\ language = EmptyStr /\ format = EmptyStr /\ size = EmptyStr

\* C9: every value extractMetaInformation returns has no leading or trailing
\* white space; language is empty when the first segment has no "[".
C9_AllValuesTrimmed ==
    mpc = "returned" =>
        /\ IsTrimmed(language) /\ IsTrimmed(format) /\ IsTrimmed(size)
        /\ (~Contains(Segs[1], <<"[">>) => language = EmptyStr)

-----------------------------------------------------------------------------
(* FindBook *)

MaxAnchors == 2

\* the selector of c.OnHTML: a[href^='/md5/']
Md5Prefix == <<"/", "m", "d", "5", "/">>
MatchesSelector(e) == HasPrefix(e.href, Md5Prefix)

\* the class of the cover image link, which the callback compares with
PrimaryClass == "custom-a block mr-2 sm:mr-4 hover:opacity-80"

\* the scheme and host e.Request.AbsoluteURL resolves a rooted href against
Origin == <<"https://annas-archive.org">>
AbsoluteURL(link) == Origin \o link

\* The anchors of a fetched page, in document order. Each carries the texts the
\* loop finds in its container (e.DOM.Parent().Find("div.max-w-full")).
Hrefs ==
    { Md5Prefix \o <<"a", "b">>,
      Md5Prefix,
      <<"/", "s", "e", "a", "r", "c", "h">> }

Classes == {PrimaryClass, "line-clamp-[3]"}

Metas ==
    { <<CHECKMARK, SP, "E", SP, "[", "e", "]">> \o Delim \o <<"P">> \o Delim \o <<"1", "M", "B">>,
      <<"E">> }

Titles == { <<LF, "T", SP>> }

Anchors == [href : Hrefs, class : Classes, meta : Metas, title : Titles]

Pages == UNION {[1..n -> Anchors] : n \in 0..MaxAnchors}

FindInit ==
    /\ fpc = "visit"
    /\ page \in Pages
    /\ fetchOK \in BOOLEAN
    /\ cursor = 0
    /\ bookList = <<>>
    /\ bookListParsed = <<>>
    /\ fret = [books |-> <<>>, err |-> "none"]
    /\ MetaIdle
    /\ DownIdle

\* c.Visit(fullURL): the request is issued; what Visit returns is dropped, and no
\* OnError callback is registered, so a failed fetch leaves no trace.
Visit ==
    /\ fpc = "visit"
    /\ fpc' = IF fetchOK THEN "scrape" ELSE "wait"
    /\ UNCHANGED <<page, fetchOK, cursor, bookList, bookListParsed, fret, metaVars, downVars>>

\* the OnHTML callback on the next anchor of the response the selector matches
OnHTML ==
    /\ fpc = "scrape"
    /\ cursor < Len(page)
    /\ LET e == page[cursor + 1]
       IN  bookList' = IF MatchesSelector(e) /\ e.class = PrimaryClass
                       THEN Append(bookList, e) ELSE bookList
    /\ cursor' = cursor + 1
    /\ UNCHANGED <<fpc, page, fetchOK, bookListParsed, fret, metaVars, downVars>>

\* c.Wait() returns once the response has been handled, or the request failed
Wait ==
    /\ \/ fpc = "scrape" /\ cursor = Len(page)
       \/ fpc = "wait"
    /\ fpc' = "parse"
    /\ UNCHANGED <<page, fetchOK, cursor, bookList, bookListParsed, fret, metaVars, downVars>>

\* the book the loop body builds of element e
BookOf(e) ==
    LET m == extractMetaInformation(e.meta)
        link == e.href
    IN  [Language |-> m.language,
         Format |-> m.format,
         Size |-> m.size,
         Title |-> TrimSpace(e.title),
         URL |-> AbsoluteURL(link),
         Hash |-> TrimPrefix(link, Md5Prefix)]

\* one iteration of for _, e := range bookList
ParseElement ==
    /\ fpc = "parse"
    /\ Len(bookListParsed) < Len(bookList)
    /\ bookListParsed' =
           Append(bookListParsed, BookOf(bookList[Len(bookListParsed) + 1]))
    /\ UNCHANGED <<fpc, page, fetchOK, cursor, bookList, fret, metaVars, downVars>>

\* return bookListParsed, nil
FindReturn ==
    /\ fpc = "parse"
    /\ Len(bookListParsed) = Len(bookList)
    /\ fret' = [books |-> bookListParsed, err |-> "nil"]
    /\ fpc' = "returned"
    /\ UNCHANGED <<page, fetchOK, cursor, bookList, bookListParsed, metaVars, downVars>>

FindNext == Visit \/ OnHTML \/ Wait \/ ParseElement \/ FindReturn

SpecFind == FindInit /\ [][FindNext]_vars

\* C4: when the fetch of the search page fails, FindBook returns a non-nil
\* error; an empty list with a nil error means the page was fetched.
C4_FetchFailurePropagated ==
    fpc = "returned" =>
        /\ (~fetchOK => fret.err # "nil")
        /\ ((fret.books = <<>> /\ fret.err = "nil") => fetchOK)

\* C5: every record FindBook returns has a non-empty Hash.
C5_HashNonEmpty ==
    fpc = "returned" =>
        \A i \in 1..Len(fret.books) : fret.books[i].Hash # EmptyStr

-----------------------------------------------------------------------------
(* Package path/filepath, on a Unix build *)

Slash == <<"/">>
DotName == <<".">>
DotDotName == <<".", ".">>

RECURSIVE JoinWith(_, _)
JoinWith(elems, sep) ==
    IF Len(elems) = 0 THEN <<>>
    ELSE IF Len(elems) = 1 THEN elems[1]
    ELSE elems[1] \o sep \o JoinWith(Tail(elems), sep)

IsRooted(path) == path # <<>> /\ path[1] = "/"

\* the components filepath.Clean keeps, folding over the components of the path
RECURSIVE CleanFold(_, _, _)
CleanFold(comps, out, rooted) ==
    IF comps = <<>> THEN out
    ELSE LET c == Head(comps)
             rest == Tail(comps)
         IN  IF c = <<>> \/ c = DotName THEN CleanFold(rest, out, rooted)
             ELSE IF c = DotDotName
                  THEN IF out # <<>> /\ out[Len(out)] # DotDotName
                       THEN CleanFold(rest, SubSeq(out, 1, Len(out) - 1), rooted)
                       ELSE IF rooted THEN CleanFold(rest, out, rooted)
                       ELSE CleanFold(rest, Append(out, c), rooted)
                  ELSE CleanFold(rest, Append(out, c), rooted)

CleanComps(path) == CleanFold(Split(path, Slash), <<>>, IsRooted(path))

\* filepath.Clean
Clean(path) ==
    IF path = <<>> THEN DotName
    ELSE LET out == CleanComps(path)
         IN  IF IsRooted(path) THEN Slash \o JoinWith(out, Slash)
             ELSE IF out = <<>> THEN DotName
             ELSE JoinWith(out, Slash)

\* filepath.Join(dir, name): the first non-empty element onwards, joined and cleaned
Join(dir, name) ==
    IF dir # <<>> THEN Clean(dir \o Slash \o name)
    ELSE IF name # <<>> THEN Clean(name)
    ELSE <<>>

-----------------------------------------------------------------------------
(* Book.Download *)

StatusOK == 200

\* the statuses the download server may answer with
Statuses == {200, 201, 204, 206, 304, 404, 500}

\* a check that lets every 2xx status through
StatusAccepted2xx(code) == code >= 200 /\ code < 300

\* downloadResp.StatusCode != http.StatusOK, negated
StatusAccepted(code) == code = StatusOK

ErrNoURL == "failed to get download URL"
ErrTransfer == "failed to download file"

\* a check of the error field in place of the URL
UrlMissingByError(resp) == resp.Error # ""

\* apiResp.DownloadURL == ""
UrlMissing(resp) == resp.DownloadURL = ""

\* a block that drops the provider's message
ResolverErrorGeneric(resp) == ErrNoURL

\* the error of the block under if apiResp.DownloadURL == ""
ResolverError(resp) == IF resp.Error # "" THEN resp.Error ELSE ErrNoURL

\* what the resolver's JSON may decode to
ApiResps == [DownloadURL : {"", "http://x/file.epub"}, Error : {"", "rate limited"}]

\* the bytes of the download response
Body == <<"x", "y">>
OldContent == <<"o">>

\* filename := b.Title + "." + b.Format, "/" replaced by "_"
Filename(b) == ReplaceAll(b.Title \o <<".">> \o b.Format, "/", "_")

\* filePath := filepath.Join(folderPath, filename)
FilePath(b, dir) == Join(dir, Filename(b))

BookTitles == { <<"a">>, <<"a", "/", "b">>, <<".">>, <<>>, <<".", ".", "/">> }
BookFormats == { <<"p">>, <<>>, <<"/", "p">> }
Folders == { <<"/", "d", "/", "e">>, <<"d">>, <<>> }

\* the directories that exist; creating a file at one of them fails
Dirs == { <<"/">>, <<"/", "d">>, <<"/", "d", "/", "e">>, <<".">>, <<"d">>, <<".", ".">> }

\* a file system: the paths of the files that exist, with their contents
WriteFile(fs, path, content) ==
    [q \in (DOMAIN fs) \cup {path} |-> IF q = path THEN content ELSE fs[q]]

EmptyFS == [q \in {} |-> <<>>]

DownInit ==
    /\ dpc = "resolve"
    /\ book \in [Title : BookTitles, Format : BookFormats]
    /\ folderPath \in Folders
    \* the target may exist already, unless its path is that of a directory
    /\ files0 \in {EmptyFS} \cup
           (IF FilePath(book, folderPath) \in Dirs THEN {}
            ELSE {WriteFile(EmptyFS, FilePath(book, folderPath), OldContent)})
    /\ files = files0
    /\ apiResp = NoResp
    /\ status = 0
    /\ filePath = EmptyStr
    /\ retErr = "none"
    /\ decoded = FALSE
    /\ nResolve = 0
    /\ nFetch = 0
    /\ nCreate = 0
    /\ MetaIdle
    /\ FindIdle

Return(err) ==
    /\ retErr' = err
    /\ dpc' = "returned"

\* resp, err := http.Get(apiURL)
Resolve ==
    /\ dpc = "resolve"
    /\ nResolve' = nResolve + 1
    /\ \/ Return("resolve request failed")
       \/ dpc' = "decode" /\ UNCHANGED retErr
    /\ UNCHANGED <<book, folderPath, files0, files, apiResp, status, filePath,
                   decoded, nFetch, nCreate, metaVars, findVars>>

\* json.NewDecoder(resp.Body).Decode(&apiResp), then the check of DownloadURL
Decode ==
    /\ dpc = "decode"
    /\ \/ Return("decode failed") /\ UNCHANGED <<apiResp, decoded>>
       \/ \E r \in ApiResps :
            /\ apiResp' = r
            /\ decoded' = TRUE
            /\ IF UrlMissing(r)
               THEN Return(ResolverError(r))
               ELSE dpc' = "fetch" /\ UNCHANGED retErr
    /\ UNCHANGED <<book, folderPath, files0, files, status, filePath,
                   nResolve, nFetch, nCreate, metaVars, findVars>>

\* downloadResp, err := http.Get(apiResp.DownloadURL), then the check of the
\* status and the building of filePath
Fetch ==
    /\ dpc = "fetch"
    /\ nFetch' = nFetch + 1
    /\ \/ Return("download request failed") /\ UNCHANGED <<status, filePath>>
       \/ \E code \in Statuses :
            /\ status' = code
            /\ IF StatusAccepted(code)
               THEN /\ filePath' = FilePath(book, folderPath)
                    /\ dpc' = "create"
                    /\ UNCHANGED retErr
               ELSE Return(ErrTransfer) /\ UNCHANGED filePath
    /\ UNCHANGED <<book, folderPath, files0, files, apiResp,
                   decoded, nResolve, nCreate, metaVars, findVars>>

\* out, err := os.Create(filePath): the file is created or truncated, or the
\* call fails (always at the path of a directory)
Create ==
    /\ dpc = "create"
    /\ \/ Return("create failed") /\ UNCHANGED <<files, nCreate>>
       \/ /\ filePath \notin Dirs
          /\ files' = WriteFile(files, filePath, <<>>)
          /\ nCreate' = nCreate + 1
          /\ dpc' = "copy"
          /\ UNCHANGED retErr
    /\ UNCHANGED <<book, folderPath, files0, apiResp, status, filePath,
                   decoded, nResolve, nFetch, metaVars, findVars>>

\* _, err = io.Copy(out, downloadResp.Body); return err: the whole body is
\* written, or the copy fails after some of it
Copy ==
    /\ dpc = "copy"
    /\ \/ /\ files' = WriteFile(files, filePath, Body)
          /\ Return("nil")
       \/ \E k \in 0..(Len(Body) - 1) :
            /\ files' = WriteFile(files, filePath, SubSeq(Body, 1, k))
            /\ Return("copy failed")
    /\ UNCHANGED <<book, folderPath, files0, apiResp, status, filePath,
                   decoded, nResolve, nFetch, nCreate, metaVars, findVars>>

DownNext == Resolve \/ Decode \/ Fetch \/ Create \/ Copy

SpecDownload == DownInit /\ [][DownNext]_vars

-----------------------------------------------------------------------------
(* The package: one call of one of its three operations *)

Init == MetaInit \/ FindInit \/ DownInit

Next == MetaNext \/ FindNext \/ DownNext

Spec == Init /\ [][Next]_vars

-----------------------------------------------------------------------------
(* Properties of Book.Download *)

\* the response of the Stage 2 request has arrived
Responded == status # 0

Is2xx(code) == code >= 200 /\ code <= 299

\* C1: when the resolve response decodes with an empty downloadURL, the call
\* has failed with no Stage 2 request issued and no file touched, and its error
\* is the provider's error string when that is non-empty, the fixed generic
\* message otherwise.
C1_EmptyURLFails ==
    (decoded /\ apiResp.DownloadURL = "") =>
        /\ dpc = "returned"
        /\ nFetch = 0
        /\ nCreate = 0
        /\ files = files0
        /\ retErr = IF apiResp.Error # "" THEN apiResp.Error
                    ELSE "failed to get download URL"

C1_Witness ==
    /\ dpc = "returned"
    /\ decoded
    /\ apiResp = [DownloadURL |-> "", Error |-> "rate limited"]
    /\ retErr = "rate limited"
    /\ nFetch = 0

\* C2, as stated: every 2xx status lets the body be streamed to the file, every
\* other status fails with the transfer error and nothing written.
C2_Any2xxStreams ==
    Responded =>
        /\ (Is2xx(status) => retErr # "failed to download file")
        /\ (~Is2xx(status) =>
                retErr = "failed to download file" /\ files = files0)

\* C2, amended: status 200 alone lets the call go on to create the file and
\* stream the body to it; every other status, the other 2xx codes included,
\* fails with the transfer error, with no file created and nothing written.
C2_Only200Streams ==
    Responded =>
        /\ (status = 200 =>
                /\ dpc \in {"create", "copy", "returned"}
                /\ retErr # "failed to download file"
                /\ (dpc = "returned" /\ retErr = "nil" => files[filePath] = Body))
        /\ (status # 200 =>
                /\ dpc = "returned"
                /\ retErr = "failed to download file"
                /\ nCreate = 0
                /\ files = files0)

\* a 2xx status other than 200 is refused
C2_Witness ==
    /\ dpc = "returned"
    /\ status = 206
    /\ retErr = "failed to download file"
    /\ files = files0

\* C3: a successful Download has written exactly one file, the target, and a
\* Download that returns an error has left the file system as it found it.
C3_NoFileOnFailure ==
    dpc = "returned" =>
        /\ (retErr = "nil" => files = WriteFile(files0, filePath, Body))
        /\ (retErr # "nil" => files = files0)

\* the name under the destination directory, when the path is a direct child of it
IsDirectChild(path, dir) ==
    /\ IsRooted(path) = IsRooted(Clean(dir))
    /\ Len(CleanComps(path)) = Len(CleanComps(dir)) + 1
    /\ SubSeq(CleanComps(path), 1, Len(CleanComps(dir))) = CleanComps(dir)
    /\ CleanComps(path)[Len(CleanComps(path))] # DotDotName

\* C8: the target path is always a direct child of the destination directory.
C8_TargetInsideFolder ==
    dpc \in {"create", "copy"} => IsDirectChild(filePath, folderPath)

\* C10: one Download issues at most one resolve request and at most one fetch
\* request; the fetch request is issued only once the resolve response has been
\* decoded with a non-empty downloadURL; the file is created only once the fetch
\* response has arrived with the success status.
C10_StagesInOrder ==
    /\ nResolve <= 1
    /\ nFetch <= 1
    /\ nCreate <= 1
    /\ (nFetch > 0 => (nResolve = 1 /\ decoded /\ apiResp.DownloadURL # ""))
    /\ (nCreate > 0 => (nFetch = 1 /\ Responded /\ status = 200))
    /\ (files # files0 => nCreate > 0)

C10_Witness ==
    /\ dpc = "returned"
    /\ retErr = "nil"
    /\ nResolve = 1 /\ nFetch = 1 /\ nCreate = 1
    /\ files[filePath] = Body

====
